---- MODULE Spec2Model ----
(***************************************************************************)
(* Model of the DOORmax rule learners of the taxi repository:              *)
(*   ConditionLearner, CELearner<E>, MCELearner   (doormax/mcelearner.rs)  *)
(*   RewardLearner, MultiRewardLearner     (doormax/multirewardlearner.rs) *)
(* ConditionLearner, Condition, Effect, State and World are collaborators  *)
(* whose code is not part of the modelled files; they are modelled from    *)
(* their documented contracts and from the test fixtures.                  *)
(***************************************************************************)
EXTENDS Integers, Sequences, FiniteSets, TLC

VARIABLES rl, rlog, ce, celog, env, seen, mce, mrl, st, last, nexp, cl, clog,
          cl2, world, stack, learn_result

vars == <<rl, rlog, ce, celog, env, seen, mce, mrl, st, last, nexp,
          cl, clog, cl2, world,
         stack, learn_result>>

(***************************************************************************)
(* Bounds                                                                  *)
(***************************************************************************)
\* number of boolean literals of an abstract condition
NLit == 3
\* number of experiences of a bounded run of one RewardLearner
MaxExp == 2
\* number of steps of a bounded training episode in the taxi world
MaxSteps == 1
\* number of DropOff experiences of a reward-learning script
ScriptLen == 3
\* number of apply_experience calls of a bounded run of one MCELearner
MaxCalls == 3
\* largest number of experiences in the reset specification
MaxResetCalls == 5
\* largest step budget given to MaxQ::learn
MaxBudget == 2

(***************************************************************************)
(* Option values (Rust Option<T>)                                          *)
(***************************************************************************)
None == [some |-> FALSE]

Some(v) == [some |-> TRUE, val |-> v]

(***************************************************************************)
(* Condition: a snapshot of literals, a function literal -> value.         *)
(***************************************************************************)
Lits == 1..NLit

Conds == [Lits -> BOOLEAN]

\* the literals of a condition as (literal, value) pairs
CondPairs(c) == {<<l, c[l]>> : l \in DOMAIN c}

(***************************************************************************)
(* ConditionLearner: seeded is FALSE until the first positive example;     *)
(* req is the set of (literal, value) pairs the hypothesis still requires. *)
(***************************************************************************)
Unknown == "Unknown"

Match == "Match"

NoMatch == "NoMatch"

CL_new == [seeded |-> FALSE, req |-> {}]

\* variant: Match as soon as one required literal holds
CL_predict_SomeLiteral(l, c) ==
    IF ~l.seeded THEN Unknown
    ELSE IF l.req = {} \/ l.req \cap CondPairs(c) # {} THEN Match
    ELSE NoMatch

CL_predict(l, c) ==
    IF ~l.seeded THEN Unknown
    ELSE IF l.req \subseteq CondPairs(c) THEN Match
    ELSE NoMatch

\* variant: the first example seeds the hypothesis, whether positive or not
CL_apply_experience_SeedOnAny(l, c, matched) ==
    IF ~l.seeded THEN [seeded |-> TRUE, req |-> CondPairs(c)]
    ELSE IF ~matched THEN l
    ELSE [l EXCEPT !.req = l.req \cap CondPairs(c)]

\* variant: every positive example seeds the hypothesis anew
CL_apply_experience_Reseed(l, c, matched) ==
    IF ~matched THEN l ELSE [seeded |-> TRUE, req |-> CondPairs(c)]

\* variant: a positive example adds the literals of the condition that the
\* hypothesis says nothing about
CL_apply_experience_Widen(l, c, matched) ==
    IF ~matched THEN l
    ELSE IF ~l.seeded THEN [seeded |-> TRUE, req |-> CondPairs(c)]
    ELSE [l EXCEPT !.req = (l.req \cap CondPairs(c)) \cup
              {p \in CondPairs(c) : \A q \in l.req : q[1] # p[1]}]

\* variant: a negative example drops the literals on which it agrees with
\* the hypothesis
CL_apply_experience_NegativeNarrows(l, c, matched) ==
    IF ~matched THEN [l EXCEPT !.req = l.req \ CondPairs(c)]
    ELSE IF ~l.seeded THEN [seeded |-> TRUE, req |-> CondPairs(c)]
    ELSE [l EXCEPT !.req = l.req \cap CondPairs(c)]

CL_apply_experience(l, c, matched) ==
    IF ~matched THEN l
    ELSE IF ~l.seeded THEN [seeded |-> TRUE, req |-> CondPairs(c)]
    ELSE [l EXCEPT !.req = l.req \cap CondPairs(c)]

\* some condition satisfies both hypotheses: no literal is required with
\* two different values
\* variant: the test the comment in CELearner::apply_experience describes,
\* either hypothesis contained in the other
CL_overlaps_Containment(a, b) ==
    a.req \subseteq b.req \/ b.req \subseteq a.req

CL_overlaps(a, b) ==
    ~\E p \in a.req, q \in b.req : p[1] = q[1] /\ p[2] # q[2]

\* variant: discards every literal the other hypothesis requires, whatever
\* the value
CL_remove_overlap_AnyValue(a, b) ==
    [a EXCEPT !.req = {p \in a.req : \A q \in b.req : q[1] # p[1]}]

CL_remove_overlap(a, b) == [a EXCEPT !.req = a.req \ b.req]

\* the learner narrowed against every rule of a list, in list order
RECURSIVE RemoveOverlapAll(_, _, _)
RemoveOverlapAll(l, rules, i) ==
    IF i > Len(rules) THEN l
    ELSE RemoveOverlapAll(CL_remove_overlap(l, rules[i].learner), rules, i + 1)

\* some pair i < j of the list's learners overlaps
HasPairConflict(rules) ==
    \E i \in 1..Len(rules) : \E j \in (i + 1)..Len(rules) :
        CL_overlaps(rules[i].learner, rules[j].learner)

(***************************************************************************)
(* RewardLearner: a list of (ConditionLearner, reward) rules.              *)
(***************************************************************************)
\* the two reward values one action yields under the default costs
\* (PickUp and DropOff: -10 on a miss, 0 on success)
Rewards == {-10, 0}

\* f64 equality on the (finite) reward values
RewardEq(a, b) == a = b

RL_new == << >>

\* variant: the first rule's reward is returned without asking its learner
RL_predict_from_FirstRule(rules, i, c, full) ==
    IF i > Len(rules) THEN full ELSE Some(rules[i].reward)

RECURSIVE RL_predict_from(_, _, _, _)
RL_predict_from(rules, i, c, full) ==
    IF i > Len(rules) THEN full
    ELSE LET m == CL_predict(rules[i].learner, c)
             r == rules[i].reward
         IN  IF m = Unknown THEN None
             ELSE IF m = NoMatch THEN RL_predict_from(rules, i + 1, c, full)
             ELSE IF full.some
                  THEN IF ~RewardEq(full.val, r) THEN None
                       ELSE RL_predict_from(rules, i + 1, c, full)
                  ELSE RL_predict_from(rules, i + 1, c, Some(r))

\* variant: a default reward (0, the best one) instead of None when no rule
\* matches
RL_predict_RmaxDefault(rules, c) ==
    IF \A i \in 1..Len(rules) : CL_predict(rules[i].learner, c) = NoMatch
    THEN Some(0)
    ELSE RL_predict_from(rules, 1, c, None)

RL_predict(rules, c) == RL_predict_from(rules, 1, c, None)

\* variant: the rule with the observed reward is not generalised
RL_update_NoPositive(rules, c, reward) ==
    [i \in 1..Len(rules) |->
        [rules[i] EXCEPT !.learner = CL_apply_experience(@, c, FALSE)]]

\* lines 52-60: every rule's learner is updated, positively when its reward
\* equals the observed one
RL_update(rules, c, reward) ==
    [i \in 1..Len(rules) |->
        [rules[i] EXCEPT !.learner =
            CL_apply_experience(@, c, RewardEq(reward, rules[i].reward))]]

RL_found(rules, reward) ==
    \E i \in 1..Len(rules) : RewardEq(reward, rules[i].reward)

\* lines 63-68: the new rule's learner
RL_new_learner(rules, c) ==
    RemoveOverlapAll(CL_apply_experience(CL_new, c, TRUE), rules, 1)

\* variant: the overlap test negated
RL_new_conflict_Inverted(rules, nl) ==
    ~\E i \in 1..Len(rules) : CL_overlaps(nl, rules[i].learner)

\* lines 71-82: the new learner overlaps an existing rule
RL_new_conflict(rules, nl) ==
    \E i \in 1..Len(rules) : CL_overlaps(nl, rules[i].learner)

\* variant: no overlap check when a new rule is added (as in CELearner)
RL_apply_experience_NoNewCheck(rules, c, reward) ==
    LET updated == RL_update(rules, c, reward)
    IN  IF ~RL_found(rules, reward)
        THEN Append(updated, [learner |-> RL_new_learner(updated, c),
                              reward |-> reward])
        ELSE IF HasPairConflict(updated) THEN << >> ELSE updated

\* variant: an overlap found after the update of an existing rule is left
\* standing
RL_apply_experience_KeepOnConflict(rules, c, reward) ==
    LET updated == RL_update(rules, c, reward)
    IN  IF ~RL_found(rules, reward)
        THEN LET nl == RL_new_learner(updated, c)
                 kept == IF RL_new_conflict(updated, nl) THEN << >> ELSE updated
             IN  Append(kept, [learner |-> nl, reward |-> reward])
        ELSE updated

RL_apply_experience(rules, c, reward) ==
    LET updated == RL_update(rules, c, reward)
    IN  IF ~RL_found(rules, reward)
        THEN LET nl == RL_new_learner(updated, c)
                 kept == IF RL_new_conflict(updated, nl) THEN << >> ELSE updated
             IN  Append(kept, [learner |-> nl, reward |-> reward])
        ELSE IF HasPairConflict(updated) THEN << >> ELSE updated

(***************************************************************************)
(* World and State: the 5x5 fixture world of the learner tests.            *)
(*     R .|. . .       y = 0                                               *)
(*     . .|G . .                                                           *)
(*     . . . . .                                                           *)
(*     .|Y .|B .                                                           *)
(*     .|. .|. .       y = 4                                               *)
(***************************************************************************)
Width == 5

Height == 5

Positions == {<<x, y>> : x \in 0..(Width - 1), y \in 0..(Height - 1)}

\* cells with a wall on their east side
WallsEast == {<<1, 0>>, <<1, 1>>, <<0, 3>>, <<2, 3>>, <<0, 4>>, <<2, 4>>}

Tags == {"R", "G", "Y", "B"}

FixedPos == [t \in Tags |->
    CASE t = "R" -> <<0, 0>>
      [] t = "G" -> <<2, 1>>
      [] t = "Y" -> <<1, 3>>
      [] t = "B" -> <<3, 3>>]

\* a world: its walls (the cells with a wall on their east side, on their
\* south side) and its fixed positions
FixtureWorld == [walls_east |-> WallsEast, walls_south |-> {}, fixed |-> FixedPos]

Actions == {"North", "South", "East", "West", "PickUp", "DropOff"}

\* passenger: Some(tag) waits at a fixed position, None rides in the taxi
PassengerVals == {None} \cup {Some(t) : t \in Tags}

States == [taxi : Positions, passenger : PassengerVals, destination : Tags]

Err == [ok |-> FALSE]

Ok(v) == [ok |-> TRUE, val |-> v]

State_build(taxi, passenger, destination) ==
    IF /\ taxi \in Positions
       /\ passenger \in PassengerVals
       /\ destination \in Tags
    THEN Ok([taxi |-> taxi, passenger |-> passenger, destination |-> destination])
    ELSE Err

\* the world of the wall tests: the walls of the fixture world, a wall on
\* the south side of cell (1, 2), and the fixed positions R and G only
WallTestWorld ==
    [walls_east |-> WallsEast, walls_south |-> {<<1, 2>>},
     fixed |-> [t \in {"R", "G"} |-> IF t = "R" THEN <<0, 0>> ELSE <<3, 3>>]]

StatesOf(w) ==
    [taxi : Positions,
     passenger : {None} \cup {Some(t) : t \in DOMAIN w.fixed},
     destination : DOMAIN w.fixed]

\* variant: walls on the south side of a cell are ignored
BlockedIn_NoSouthWalls(w, pos, a) ==
    CASE a = "North" -> pos[2] = 0
      [] a = "South" -> pos[2] = Height - 1
      [] a = "East"  -> pos[1] = Width - 1 \/ pos \in w.walls_east
      [] a = "West"  -> pos[1] = 0 \/ <<pos[1] - 1, pos[2]>> \in w.walls_east
      [] OTHER -> TRUE

BlockedIn(w, pos, a) ==
    CASE a = "North" -> pos[2] = 0 \/ <<pos[1], pos[2] - 1>> \in w.walls_south
      [] a = "South" -> pos[2] = Height - 1 \/ pos \in w.walls_south
      [] a = "East"  -> pos[1] = Width - 1 \/ pos \in w.walls_east
      [] a = "West"  -> pos[1] = 0 \/ <<pos[1] - 1, pos[2]>> \in w.walls_east
      [] OTHER -> TRUE

Blocked(pos, a) == BlockedIn(FixtureWorld, pos, a)

Moved(pos, a) ==
    CASE a = "North" -> <<pos[1], pos[2] - 1>>
      [] a = "South" -> <<pos[1], pos[2] + 1>>
      [] a = "East"  -> <<pos[1] + 1, pos[2]>>
      [] a = "West"  -> <<pos[1] - 1, pos[2]>>
      [] OTHER -> pos

OnPassengerIn(w, s) == s.passenger.some /\ s.taxi = w.fixed[s.passenger.val]

OnDestinationIn(w, s) == s.taxi = w.fixed[s.destination]

OnPassenger(s) == OnPassengerIn(FixtureWorld, s)

OnDestination(s) == OnDestinationIn(FixtureWorld, s)

\* State::at_destination: the passenger has been delivered
State_at_destination(s) == s.passenger = Some(s.destination)

\* variant: DropOff succeeds wherever the passenger is in the taxi
State_apply_action_in_DropAnywhere(w, s, a) ==
    CASE a \in {"North", "South", "East", "West"} ->
            [reward |-> -1,
             state |-> IF BlockedIn(w, s.taxi, a) THEN s
                       ELSE [s EXCEPT !.taxi = Moved(s.taxi, a)]]
      [] a = "PickUp" ->
            IF OnPassengerIn(w, s)
            THEN [reward |-> 0, state |-> [s EXCEPT !.passenger = None]]
            ELSE [reward |-> -10, state |-> s]
      [] a = "DropOff" ->
            IF ~s.passenger.some
            THEN [reward |-> 0,
                  state |-> [s EXCEPT !.passenger = Some(s.destination)]]
            ELSE [reward |-> -10, state |-> s]

\* State::apply_action(world, action): (reward, next state)
State_apply_action_in(w, s, a) ==
    CASE a \in {"North", "South", "East", "West"} ->
            [reward |-> -1,
             state |-> IF BlockedIn(w, s.taxi, a) THEN s
                       ELSE [s EXCEPT !.taxi = Moved(s.taxi, a)]]
      [] a = "PickUp" ->
            IF OnPassengerIn(w, s)
            THEN [reward |-> 0, state |-> [s EXCEPT !.passenger = None]]
            ELSE [reward |-> -10, state |-> s]
      [] a = "DropOff" ->
            IF ~s.passenger.some /\ OnDestinationIn(w, s)
            THEN [reward |-> 0,
                  state |-> [s EXCEPT !.passenger = Some(s.destination)]]
            ELSE [reward |-> -10, state |-> s]

\* State::apply_action in the fixture world
State_apply_action(s, a) == State_apply_action_in(FixtureWorld, s, a)

\* Condition::new(world, state)
Condition(s) ==
    [touch_n |-> Blocked(s.taxi, "North"),
     touch_s |-> Blocked(s.taxi, "South"),
     touch_e |-> Blocked(s.taxi, "East"),
     touch_w |-> Blocked(s.taxi, "West"),
     on_passenger |-> OnPassenger(s),
     has_passenger |-> ~s.passenger.some,
     on_destination |-> OnDestination(s)]

WorldConds == {Condition(s) : s \in States}

(***************************************************************************)
(* Effect kinds: "x" ChangeTaxiX, "y" ChangeTaxiY, "p" ChangePassenger     *)
(***************************************************************************)
Eff_generate_effects(kind, old, new) ==
    CASE kind = "x" -> IF new.taxi[1] = old.taxi[1] THEN None
                       ELSE Some(new.taxi[1] - old.taxi[1])
      [] kind = "y" -> IF new.taxi[2] = old.taxi[2] THEN None
                       ELSE Some(new.taxi[2] - old.taxi[2])
      [] kind = "p" -> IF new.passenger = old.passenger THEN None
                       ELSE Some(new.passenger)

Eff_apply(kind, e, s) ==
    CASE kind = "x" ->
            State_build(<<s.taxi[1] + e, s.taxi[2]>>, s.passenger, s.destination)
      [] kind = "y" ->
            State_build(<<s.taxi[1], s.taxi[2] + e>>, s.passenger, s.destination)
      [] kind = "p" -> State_build(s.taxi, e, s.destination)

(***************************************************************************)
(* CELearner<E>: a list of (ConditionLearner, effect) rules.               *)
(***************************************************************************)
CE_new == << >>

\* variant: Ok(None) when the loop ends with no matching rule
CE_predict_from_NoDefault(rules, i, kind, state, c, full) ==
    LET M == {k \in i..Len(rules) : CL_predict(rules[k].learner, c) = Match}
    IN  IF M = {} THEN Ok(full)
        ELSE LET k == CHOOSE k \in M : \A n \in M : k <= n
                 result == Eff_apply(kind, rules[k].effect, state)
             IN  IF result.ok THEN Ok(Some(result.val)) ELSE Err

\* variant: the first matching rule decides, later matching rules are not
\* compared with it
CE_predict_from_FirstMatch(rules, i, kind, state, c, full) ==
    LET M == {k \in i..Len(rules) : CL_predict(rules[k].learner, c) = Match}
    IN  IF M = {} THEN Ok(Some(state))
        ELSE LET k == CHOOSE k \in M : \A n \in M : k <= n
                 result == Eff_apply(kind, rules[k].effect, state)
             IN  IF result.ok THEN Ok(Some(result.val)) ELSE Err

RECURSIVE CE_predict_from(_, _, _, _, _, _)
CE_predict_from(rules, i, kind, state, c, full) ==
    IF i > Len(rules)
    THEN IF full.some THEN Ok(full) ELSE Ok(Some(state))
    ELSE LET m == CL_predict(rules[i].learner, c)
         IN  IF m = Unknown THEN Ok(None)
             ELSE IF m = NoMatch
                  THEN CE_predict_from(rules, i + 1, kind, state, c, full)
             ELSE LET result == Eff_apply(kind, rules[i].effect, state)
                  IN  IF ~result.ok THEN Err
                      ELSE IF full.some
                           THEN IF full.val # result.val THEN Ok(None)
                                ELSE CE_predict_from(rules, i + 1, kind, state, c, full)
                           ELSE CE_predict_from(rules, i + 1, kind, state, c,
                                                Some(result.val))

\* variant: Unknown instead of "no effect" when no rule matches
CE_predict_UnknownDefault(rules, kind, state, c) ==
    IF \A i \in 1..Len(rules) : CL_predict(rules[i].learner, c) = NoMatch
    THEN Ok(None)
    ELSE CE_predict_from(rules, 1, kind, state, c, None)

\* variant: a rule set without rules answers Unknown
CE_predict_EmptyUnknown(rules, kind, state, c) ==
    IF rules = << >> THEN Ok(None)
    ELSE CE_predict_from(rules, 1, kind, state, c, None)

CE_predict(rules, kind, state, c) ==
    CE_predict_from(rules, 1, kind, state, c, None)

\* variant: a transition without effect is a positive example for every rule
CE_update_PositiveOnNoEffect(rules, c, observed) ==
    [i \in 1..Len(rules) |->
        [rules[i] EXCEPT !.learner =
            CL_apply_experience(@, c,
                ~observed.some \/ observed.val = rules[i].effect)]]

\* lines 86-90 and 94-103: every rule's learner is updated, positively when
\* an effect was observed and equals the rule's effect
CE_update(rules, c, observed) ==
    [i \in 1..Len(rules) |->
        [rules[i] EXCEPT !.learner =
            CL_apply_experience(@, c,
                observed.some /\ observed.val = rules[i].effect)]]

\* variant: the observed effect is never recognised as a stored one
CE_found_Never(rules, observed) == FALSE

CE_found(rules, observed) ==
    \E i \in 1..Len(rules) : observed.some /\ observed.val = rules[i].effect

\* lines 106-111: the new rule's learner
\* variant: the new rule's learner is stored without its first example
CE_new_learner_Unseeded(rules, c) ==
    RemoveOverlapAll(CL_new, rules, 1)

CE_new_learner(rules, c) ==
    RemoveOverlapAll(CL_apply_experience(CL_new, c, TRUE), rules, 1)

\* variant: an effect seen for the first time adds no rule
CE_apply_observed_NoAppend(rules, c, observed) ==
    LET updated == CE_update(rules, c, observed)
    IN  IF ~observed.some \/ ~CE_found(rules, observed) THEN updated
        ELSE IF HasPairConflict(updated) THEN << >> ELSE updated

\* variant: the new rule's learner is checked against the stored rules as
\* RewardLearner does, and they are cleared when it overlaps one
CE_apply_observed_CheckNew(rules, c, observed) ==
    LET updated == CE_update(rules, c, observed)
    IN  IF ~observed.some THEN updated
        ELSE IF ~CE_found(rules, observed)
             THEN LET nl == CE_new_learner(updated, c)
                      kept == IF \E i \in 1..Len(updated) :
                                     CL_overlaps(nl, updated[i].learner)
                              THEN << >> ELSE updated
                  IN  Append(kept, [learner |-> nl, effect |-> observed.val])
             ELSE IF HasPairConflict(updated) THEN << >> ELSE updated

\* variant: after an update only the pairs with an updated rule are checked
CE_apply_observed_CheckUpdatedOnly(rules, c, observed) ==
    LET updated == CE_update(rules, c, observed)
    IN  IF ~observed.some THEN updated
        ELSE IF ~CE_found(rules, observed)
             THEN Append(updated, [learner |-> CE_new_learner(updated, c),
                                   effect |-> observed.val])
             ELSE IF \E i \in 1..Len(updated), j \in 1..Len(updated) :
                        /\ i # j /\ updated[i].effect = observed.val
                        /\ CL_overlaps(updated[i].learner, updated[j].learner)
                  THEN << >> ELSE updated

CE_apply_observed(rules, c, observed) ==
    LET updated == CE_update(rules, c, observed)
    IN  IF ~observed.some THEN updated
        ELSE IF ~CE_found(rules, observed)
             THEN Append(updated, [learner |-> CE_new_learner(updated, c),
                                   effect |-> observed.val])
             ELSE IF HasPairConflict(updated) THEN << >> ELSE updated

CE_apply_experience(rules, kind, c, old_state, new_state) ==
    CE_apply_observed(rules, c, Eff_generate_effects(kind, old_state, new_state))

(***************************************************************************)
(* MCELearner: three CELearners per action.                                *)
(***************************************************************************)
MCE_new ==
    [taxi_x_learners |-> [a \in Actions |-> CE_new],
     taxi_y_learners |-> [a \in Actions |-> CE_new],
     passenger_learners |-> [a \in Actions |-> CE_new]]

\* variant: an Unknown passenger prediction is replaced by the input
\* state's passenger
MCE_predict_PassengerDefault(m, state, a) ==
    LET c == Condition(state)
        px == CE_predict(m.taxi_x_learners[a], "x", state, c)
        py == CE_predict(m.taxi_y_learners[a], "y", state, c)
        pp == CE_predict(m.passenger_learners[a], "p", state, c)
    IN  IF ~px.ok THEN Err
        ELSE IF ~px.val.some THEN Ok(None)
        ELSE IF ~py.ok THEN Err
        ELSE IF ~py.val.some THEN Ok(None)
        ELSE IF ~pp.ok THEN Err
        ELSE LET built == State_build(
                     <<px.val.val.taxi[1], py.val.val.taxi[2]>>,
                     IF pp.val.some THEN pp.val.val.passenger
                     ELSE state.passenger,
                     state.destination)
             IN  IF built.ok THEN Ok(Some(built.val)) ELSE Err

\* variant: the composed position takes both coordinates from the taxi-x
\* prediction
MCE_predict_PositionFromX(m, state, a) ==
    LET c == Condition(state)
        px == CE_predict(m.taxi_x_learners[a], "x", state, c)
        py == CE_predict(m.taxi_y_learners[a], "y", state, c)
        pp == CE_predict(m.passenger_learners[a], "p", state, c)
    IN  IF ~px.ok THEN Err
        ELSE IF ~px.val.some THEN Ok(None)
        ELSE IF ~py.ok THEN Err
        ELSE IF ~py.val.some THEN Ok(None)
        ELSE IF ~pp.ok THEN Err
        ELSE IF ~pp.val.some THEN Ok(None)
        ELSE LET built == State_build(px.val.val.taxi,
                     pp.val.val.passenger, state.destination)
             IN  IF built.ok THEN Ok(Some(built.val)) ELSE Err

\* variant: the error of a rule set is answered as Unknown
MCE_predict_ErrorAsUnknown(m, state, a) ==
    LET c == Condition(state)
        px == CE_predict(m.taxi_x_learners[a], "x", state, c)
        py == CE_predict(m.taxi_y_learners[a], "y", state, c)
        pp == CE_predict(m.passenger_learners[a], "p", state, c)
    IN  IF ~px.ok THEN Ok(None)
        ELSE IF ~px.val.some THEN Ok(None)
        ELSE IF ~py.ok THEN Ok(None)
        ELSE IF ~py.val.some THEN Ok(None)
        ELSE IF ~pp.ok THEN Ok(None)
        ELSE IF ~pp.val.some THEN Ok(None)
        ELSE LET built == State_build(
                     <<px.val.val.taxi[1], py.val.val.taxi[2]>>,
                     pp.val.val.passenger, state.destination)
             IN  IF built.ok THEN Ok(Some(built.val)) ELSE Err

MCE_predict(m, state, a) ==
    LET c == Condition(state)
        px == CE_predict(m.taxi_x_learners[a], "x", state, c)
        py == CE_predict(m.taxi_y_learners[a], "y", state, c)
        pp == CE_predict(m.passenger_learners[a], "p", state, c)
    IN  IF ~px.ok THEN Err
        ELSE IF ~px.val.some THEN Ok(None)
        ELSE IF ~py.ok THEN Err
        ELSE IF ~py.val.some THEN Ok(None)
        ELSE IF ~pp.ok THEN Err
        ELSE IF ~pp.val.some THEN Ok(None)
        ELSE LET built == State_build(
                     <<px.val.val.taxi[1], py.val.val.taxi[2]>>,
                     pp.val.val.passenger, state.destination)
             IN  IF built.ok THEN Ok(Some(built.val)) ELSE Err

\* variant: the passenger rule sets of all actions learn from the
\* experience
MCE_apply_experience_SharedPassenger(m, state, a, new_state) ==
    LET c == Condition(state)
    IN  [taxi_x_learners |-> [m.taxi_x_learners EXCEPT
            ![a] = CE_apply_experience(@, "x", c, state, new_state)],
         taxi_y_learners |-> [m.taxi_y_learners EXCEPT
            ![a] = CE_apply_experience(@, "y", c, state, new_state)],
         passenger_learners |-> [b \in Actions |->
            CE_apply_experience(m.passenger_learners[b], "p", c, state,
                                new_state)]]

MCE_apply_experience(m, state, a, new_state) ==
    LET c == Condition(state)
    IN  [taxi_x_learners |-> [m.taxi_x_learners EXCEPT
            ![a] = CE_apply_experience(@, "x", c, state, new_state)],
         taxi_y_learners |-> [m.taxi_y_learners EXCEPT
            ![a] = CE_apply_experience(@, "y", c, state, new_state)],
         passenger_learners |-> [m.passenger_learners EXCEPT
            ![a] = CE_apply_experience(@, "p", c, state, new_state)]]

(***************************************************************************)
(* MultiRewardLearner: one RewardLearner per action.                       *)
(***************************************************************************)
MRL_new == [a \in Actions |-> RL_new]

MRL_predict(m, state, a) == RL_predict(m[a], Condition(state))

MRL_apply_experience(m, state, a, reward) ==
    [m EXCEPT ![a] = RL_apply_experience(@, Condition(state), reward)]

(***************************************************************************)
(* Specification SpecRL: one RewardLearner trained by any sequence of      *)
(* experiences; rlog keeps the most recent experience.                     *)
(***************************************************************************)
InitRL ==
    /\ rl = RL_new /\ rlog = << >>
    /\ ce = CE_new /\ celog = << >>
    /\ env = << >> /\ seen = {}
    /\ mce = MCE_new /\ mrl = MRL_new
    /\ st = << >> /\ last = << >> /\ nexp = 0
    /\ cl = CL_new /\ clog = << >>
    /\ cl2 = CL_new /\ world = FixtureWorld
    /\ stack = << >> /\ learn_result = << >>

\* has_conflict of the call: in the new-rule path the new learner overlaps
\* a stored rule, in the existing-rule path two rules overlap
RL_has_conflict(rules, c, reward) ==
    LET updated == RL_update(rules, c, reward)
    IN  IF ~RL_found(rules, reward)
        THEN RL_new_conflict(updated, RL_new_learner(updated, c))
        ELSE HasPairConflict(updated)

RLExperience(c, r) ==
    /\ rl' = RL_apply_experience(rl, c, r)
    /\ rlog' = <<[c |-> c, r |-> r, found |-> RL_found(rl, r),
                  conflict |-> RL_has_conflict(rl, c, r)]>>
    /\ UNCHANGED <<ce, celog, env, seen, mce, mrl, st, last, nexp, cl, clog,
                 cl2, world,
                 stack, learn_result>>

NextRL == \E c \in Conds, r \in Rewards : RLExperience(c, r)

SpecRL == InitRL /\ [][NextRL]_vars

(***************************************************************************)
(* Specification SpecRLRun: a fresh RewardLearner given at most MaxExp     *)
(* experiences; rlog keeps all of them.                                    *)
(***************************************************************************)
RLRunExperience(c, r) ==
    /\ Len(rlog) < MaxExp
    /\ rl' = RL_apply_experience(rl, c, r)
    /\ rlog' = Append(rlog, [c |-> c, r |-> r, found |-> RL_found(rl, r)])
    /\ UNCHANGED <<ce, celog, env, seen, mce, mrl, st, last, nexp, cl, clog,
                 cl2, world,
                 stack, learn_result>>

NextRLRun == \E c \in Conds, r \in Rewards : RLRunExperience(c, r)

SpecRLRun == InitRL /\ [][NextRLRun]_vars

(***************************************************************************)
(* Specification SpecWorld: a training episode in the fixture world from   *)
(* any start state; every step teaches both composite learners.            *)
(***************************************************************************)
InitWorld ==
    /\ rl = RL_new /\ rlog = << >> /\ ce = CE_new /\ celog = << >>
    /\ env = << >> /\ seen = {}
    /\ mce = MCE_new /\ mrl = MRL_new
    /\ st \in States /\ last = << >> /\ nexp = 0
    /\ cl = CL_new /\ clog = << >>
    /\ cl2 = CL_new /\ world = FixtureWorld
    /\ stack = << >> /\ learn_result = << >>

Step(a) ==
    /\ nexp < MaxSteps
    /\ LET res == State_apply_action(st, a)
       IN  /\ mce' = MCE_apply_experience(mce, st, a, res.state)
           /\ mrl' = MRL_apply_experience(mrl, st, a, res.reward)
           /\ last' = <<[s |-> st, a |-> a, s2 |-> res.state, r |-> res.reward]>>
           /\ st' = res.state
    /\ nexp' = nexp + 1
    /\ UNCHANGED <<rl, rlog, ce, celog, env, seen, cl, clog,
                 cl2, world,
                 stack, learn_result>>

NextWorld == \E a \in Actions : Step(a)

SpecWorld == InitWorld /\ [][NextWorld]_vars

(***************************************************************************)
(* Specification SpecState: State::apply_action alone, at most MaxSteps    *)
(* actions from any state of the fixture world or of the world of the      *)
(* wall tests; last keeps the latest step.                                 *)
(***************************************************************************)
InitState ==
    /\ rl = RL_new /\ rlog = << >> /\ ce = CE_new /\ celog = << >>
    /\ env = << >> /\ seen = {}
    /\ mce = MCE_new /\ mrl = MRL_new
    /\ world \in {FixtureWorld, WallTestWorld}
    /\ stack = << >> /\ learn_result = << >>
    /\ st \in StatesOf(world) /\ last = << >> /\ nexp = 0
    /\ cl = CL_new /\ clog = << >> /\ cl2 = CL_new

ApplyAction(a) ==
    /\ nexp < MaxSteps
    /\ LET res == State_apply_action_in(world, st, a)
       IN  /\ last' = <<[s |-> st, a |-> a, s2 |-> res.state, r |-> res.reward]>>
           /\ st' = res.state
    /\ nexp' = nexp + 1
    /\ UNCHANGED <<rl, rlog, ce, celog, env, seen, mce, mrl, cl, clog,
                 cl2, world,
                 stack, learn_result>>

NextState == \E a \in Actions : ApplyAction(a)

SpecState == InitState /\ [][NextState]_vars

(***************************************************************************)
(* Specification SpecCE: one CELearner<ChangeTaxiX> trained by any         *)
(* sequence of experiences: any condition, the taxi in the middle of the   *)
(* unobstructed row of the fixture world before, and there or one cell     *)
(* west or east of it after.  celog keeps the most recent experience.      *)
(***************************************************************************)
LineStates ==
    {s \in States : s.taxi[2] = 2 /\ s.passenger = Some("R") /\ s.destination = "B"}

LineMoves ==
    {m \in LineStates \X LineStates :
        /\ m[1].taxi[1] = Width \div 2
        /\ m[2].taxi[1] - m[1].taxi[1] \in {-1, 0, 1}}

CEExperience(c, old, new) ==
    /\ ce' = CE_apply_experience(ce, "x", c, old, new)
    /\ celog' = <<[c |-> c, old |-> old, new |-> new, before |-> Len(ce)]>>
    /\ UNCHANGED <<rl, rlog, env, seen, mce, mrl, st, last, nexp, cl, clog,
                 cl2, world,
                 stack, learn_result>>

NextCE == \E c \in Conds, m \in LineMoves : CEExperience(c, m[1], m[2])

SpecCE == InitRL /\ [][NextCE]_vars

(***************************************************************************)
(* Specification SpecCECalls: a fresh CELearner<ChangeTaxiX> given at most *)
(* MaxCalls experiences of the kind SpecCE gives; celog keeps the latest   *)
(* experience and the rule list it was applied to.                         *)
(***************************************************************************)
CECall(c, old, new) ==
    /\ nexp < MaxCalls
    /\ nexp' = nexp + 1
    /\ ce' = CE_apply_experience(ce, "x", c, old, new)
    /\ celog' = <<[c |-> c, old |-> old, new |-> new, rules |-> ce]>>
    /\ UNCHANGED <<rl, rlog, env, seen, mce, mrl, st, last, cl, clog,
                 cl2, world,
                 stack, learn_result>>

NextCECalls == \E c \in Conds, m \in LineMoves : CECall(c, m[1], m[2])

SpecCECalls == InitRL /\ [][NextCECalls]_vars

(***************************************************************************)
(* Specification SpecCEReset: a fresh CELearner<ChangeTaxiX> given at most *)
(* MaxResetCalls experiences by a deterministic environment: the move of   *)
(* the taxi is decided by the first three literals of the condition        *)
(* (EnvDelta), the other literals are false.                               *)
(***************************************************************************)
EnvConds == {c \in Conds : \A l \in Lits : l > 3 => ~c[l]}

EnvDelta(c) ==
    IF c[1] THEN (IF c[2] /\ ~c[3] THEN -1 ELSE 1)
    ELSE IF c[3] THEN 2 ELSE 0

EnvOld == CHOOSE s \in LineStates : s.taxi[1] = Width \div 2

CEEnvCall(c) ==
    /\ nexp < MaxResetCalls
    /\ nexp' = nexp + 1
    /\ LET new == [EnvOld EXCEPT !.taxi[1] = @ + EnvDelta(c)]
       IN  /\ ce' = CE_apply_experience(ce, "x", c, EnvOld, new)
           /\ celog' = <<[c |-> c, old |-> EnvOld, new |-> new, rules |-> ce]>>
    /\ UNCHANGED <<rl, rlog, env, seen, mce, mrl, st, last, cl, clog,
                 cl2, world,
                 stack, learn_result>>

NextCEReset == \E c \in EnvConds : CEEnvCall(c)

SpecCEReset == InitRL /\ [][NextCEReset]_vars

(***************************************************************************)
(* Specification SpecMirror: one RewardLearner and one CELearner given at  *)
(* most MaxCalls corresponding experiences: the same condition, and a      *)
(* reward for the one                                                      *)
(* where the other observes an effect, equal rewards standing for equal    *)
(* effects (EffectFor).                                                    *)
(***************************************************************************)
EffectFor(r) == IF r = 0 THEN 1 ELSE -1

MirrorExperience(c, r) ==
    /\ nexp < MaxCalls
    /\ nexp' = nexp + 1
    /\ rl' = RL_apply_experience(rl, c, r)
    /\ ce' = CE_apply_observed(ce, c, Some(EffectFor(r)))
    /\ UNCHANGED <<rlog, celog, env, seen, mce, mrl, st, last, cl, clog,
                 cl2, world,
                 stack, learn_result>>

NextMirror == \E c \in Conds, r \in Rewards : MirrorExperience(c, r)

SpecMirror == InitRL /\ [][NextMirror]_vars

(***************************************************************************)
(* Specification SpecDet: one RewardLearner trained by a deterministic     *)
(* environment: env gives every condition its reward, seen holds the       *)
(* conditions observed so far.  As for PickUp and DropOff in the taxi      *)
(* world, the reward is 0 exactly where a conjunction of literals (the     *)
(* success condition) holds and -10 elsewhere.                             *)
(***************************************************************************)
Conjunctions ==
    {h \in SUBSET (Lits \X BOOLEAN) :
        \A p \in h, q \in h : p[1] = q[1] => p[2] = q[2]}

SuccessEnv(h) == [c \in Conds |-> IF h \subseteq CondPairs(c) THEN 0 ELSE -10]

InitDet ==
    /\ rl = RL_new /\ rlog = << >> /\ ce = CE_new /\ celog = << >>
    /\ env \in {SuccessEnv(h) : h \in Conjunctions} /\ seen = {}
    /\ mce = MCE_new /\ mrl = MRL_new
    /\ st = << >> /\ last = << >> /\ nexp = 0
    /\ cl = CL_new /\ clog = << >>
    /\ cl2 = CL_new /\ world = FixtureWorld
    /\ stack = << >> /\ learn_result = << >>

DetExperience(c) ==
    /\ rl' = RL_apply_experience(rl, c, env[c])
    /\ seen' = seen \cup {c}
    /\ UNCHANGED <<rlog, ce, celog, env, mce, mrl, st, last, nexp, cl, clog,
                 cl2, world,
                 stack, learn_result>>

NextDet == \E c \in Conds : DetExperience(c)

SpecDet == InitDet /\ [][NextDet]_vars

(***************************************************************************)
(* Specification SpecDropOff: a fresh MultiRewardLearner given at most     *)
(* ScriptLen DropOff experiences at any states of the fixture world, each  *)
(* with the reward the world pays; rlog keeps their conditions and rewards.*)
(***************************************************************************)
DropOffExperience(s) ==
    /\ Len(rlog) < ScriptLen
    /\ LET r == State_apply_action(s, "DropOff").reward
       IN  /\ mrl' = MRL_apply_experience(mrl, s, "DropOff", r)
           /\ rlog' = Append(rlog, [c |-> Condition(s), r |-> r])
    /\ UNCHANGED <<rl, ce, celog, env, seen, mce, st, last, nexp, cl, clog,
                 cl2, world,
                 stack, learn_result>>

NextDropOff == \E s \in States : DropOffExperience(s)

SpecDropOff == InitRL /\ [][NextDropOff]_vars

(***************************************************************************)
(* Specification SpecCL: one ConditionLearner given any sequence of        *)
(* positive and negative examples; clog keeps the conditions given as      *)
(* positive examples, their number (1, or 2 for two or more), whether a    *)
(* negative example was given, and whether the latest call was positive.  *)
(***************************************************************************)
InitCL ==
    /\ rl = RL_new /\ rlog = << >> /\ ce = CE_new /\ celog = << >>
    /\ env = << >> /\ seen = {}
    /\ mce = MCE_new /\ mrl = MRL_new
    /\ st = << >> /\ last = << >> /\ nexp = 0
    /\ cl = CL_new
    /\ clog = [pos |-> {}, npos |-> 0, neg |-> FALSE, matched |-> "none"]
    /\ cl2 = CL_new /\ world = FixtureWorld
    /\ stack = << >> /\ learn_result = << >>

CLExperience(c, matched) ==
    /\ cl' = CL_apply_experience(cl, c, matched)
    /\ clog' = IF matched
               THEN [clog EXCEPT !.pos = @ \cup {c},
                                 !.npos = IF @ = 0 THEN 1 ELSE 2,
                                 !.matched = "pos"]
               ELSE [clog EXCEPT !.neg = TRUE, !.matched = "neg"]
    /\ UNCHANGED <<rl, rlog, ce, celog, env, seen, mce, mrl, st, last, nexp,
                 cl2, world,
                 stack, learn_result>>

NextCL == \E c \in Conds, matched \in BOOLEAN : CLExperience(c, matched)

SpecCL == InitCL /\ [][NextCL]_vars

(***************************************************************************)
(* Specification SpecCLPair: two ConditionLearners, each given any         *)
(* sequence of examples, and the first narrowed against the second by      *)
(* remove_overlap at any time; clog keeps the latest operation and whether *)
(* the latest remove_overlap removed a literal.                            *)
(***************************************************************************)
InitCLPair ==
    /\ rl = RL_new /\ rlog = << >> /\ ce = CE_new /\ celog = << >>
    /\ env = << >> /\ seen = {}
    /\ mce = MCE_new /\ mrl = MRL_new
    /\ st = << >> /\ last = << >> /\ nexp = 0
    /\ cl = CL_new /\ cl2 = CL_new
    /\ clog = [op |-> "none", removed |-> FALSE]
    /\ world = FixtureWorld
    /\ stack = << >> /\ learn_result = << >>

PairExperience(first, c, matched) ==
    /\ cl' = IF first THEN CL_apply_experience(cl, c, matched) ELSE cl
    /\ cl2' = IF first THEN cl2 ELSE CL_apply_experience(cl2, c, matched)
    /\ clog' = [op |-> "experience", removed |-> FALSE]
    /\ UNCHANGED <<rl, rlog, ce, celog, env, seen, mce, mrl, st, last, nexp,
                 world,
                 stack, learn_result>>

PairRemoveOverlap ==
    /\ cl' = CL_remove_overlap(cl, cl2)
    /\ clog' = [op |-> "remove_overlap", removed |-> cl'.req # cl.req]
    /\ UNCHANGED <<rl, rlog, ce, celog, env, seen, mce, mrl, st, last, nexp,
                 cl2, world,
                 stack, learn_result>>

NextCLPair ==
    \/ \E first \in BOOLEAN, c \in Conds, matched \in BOOLEAN :
          PairExperience(first, c, matched)
    \/ PairRemoveOverlap

SpecCLPair == InitCLPair /\ [][NextCLPair]_vars

(***************************************************************************)
(* Specification SpecMCE: a fresh MCELearner given at most MaxCalls        *)
(* apply_experience calls for one action, with any old and new state the   *)
(* caller chooses among a few: the passenger waits at R, the destination   *)
(* is B, the old taxi position is one of three cells of the unobstructed   *)
(* row; the new state has the taxi on one of them or on the top row, or    *)
(* the passenger in the taxi or at G.                                      *)
(***************************************************************************)
CallPos == {<<2, 2>>, <<3, 2>>, <<4, 2>>}

CallOldStates ==
    {s \in States : /\ s.taxi \in CallPos
                    /\ s.passenger = Some("R")
                    /\ s.destination = "B"}

CallNewStates(s) ==
    {[s EXCEPT !.taxi = t] : t \in CallPos \cup {<<3, 0>>}}
        \cup {[s EXCEPT !.passenger = q] : q \in {None, Some("G")}}

CallActions == {"East"}

\* the states predict is asked about
QueryStates ==
    {s \in States : s.passenger \in {Some("R"), None} /\ s.destination = "B"}

MCEExperience(s, a, s2) ==
    /\ nexp < MaxCalls
    /\ mce' = MCE_apply_experience(mce, s, a, s2)
    /\ nexp' = nexp + 1
    /\ UNCHANGED <<rl, rlog, ce, celog, env, seen, mrl, st, last, cl, clog,
                 cl2, world,
                 stack, learn_result>>

NextMCE ==
    \E s \in CallOldStates, a \in CallActions : \E s2 \in CallNewStates(s) :
        MCEExperience(s, a, s2)

SpecMCE == InitRL /\ [][NextMCE]_vars

(***************************************************************************)
(* The states of the learner tests                                         *)
(***************************************************************************)
\* learns_dropoff
no_passenger == [taxi |-> <<3, 3>>, passenger |-> Some("R"), destination |-> "B"]

off_destination == [taxi |-> <<1, 3>>, passenger |-> None, destination |-> "B"]

on_destination == [taxi |-> <<3, 3>>, passenger |-> None, destination |-> "B"]

\* learns_taxi_east_simple
old_state == [taxi |-> <<1, 3>>, passenger |-> Some("R"), destination |-> "B"]

(***************************************************************************)
(* Properties                                                              *)
(***************************************************************************)
TaxiMoved == last[1].s2.taxi # last[1].s.taxi

\* C1 (SpecWorld): after exactly one apply_experience(s, a, s') on a fresh
\* MCELearner, s' the real successor of s under a and the taxi moved,
\* predict(s, a) is Ok(Some(s')).
C1_PredictsMovedState ==
    (nexp = 1 /\ TaxiMoved) =>
        MCE_predict(mce, last[1].s, last[1].a) = Ok(Some(last[1].s2))

\* the learns_taxi_east_simple case: East from (1,3) to (2,3), predicted
C1_Witness ==
    /\ nexp = 1
    /\ last[1].s = old_state /\ last[1].a = "East"
    /\ last[1].s2.taxi = <<2, 3>>
    /\ MCE_predict(mce, old_state, "East") = Ok(Some(last[1].s2))

\* the state's condition differs from the trained one in a literal that a
\* rule learned for the trained action requires
DiffersInRequiredLiteral(q) ==
    LET a == last[1].a
        rules == mce.taxi_x_learners[a] \o mce.taxi_y_learners[a]
                    \o mce.passenger_learners[a]
    IN  \E i \in 1..Len(rules) : \E p \in rules[i].learner.req :
            Condition(q)[p[1]] # p[2]

Unrelated(q, b) == b # last[1].a \/ DiffersInRequiredLiteral(q)

\* C2 as stated (SpecWorld): after a single apply_experience for East on a
\* fresh MCELearner, predict is Unknown, Ok(None), for every unrelated query:
\* every other action, and every state whose condition differs from the
\* trained one in a literal the learned rule requires.
C2_UnrelatedUnknown ==
    (nexp = 1 /\ last[1].a = "East") =>
        \A q \in States, b \in Actions :
            Unrelated(q, b) => MCE_predict(mce, q, b) = Ok(None)

\* C2 as amended (SpecWorld): after a single apply_experience for East on a
\* fresh MCELearner, predict answers every unrelated query with the queried
\* state unchanged, Ok(Some(q)): a confident "no effect", not Unknown.
C2_UnrelatedNoEffect ==
    (nexp = 1 /\ last[1].a = "East") =>
        \A q \in States, b \in Actions :
            Unrelated(q, b) => MCE_predict(mce, q, b) = Ok(Some(q))

\* East was learned from (1,3), and both kinds of unrelated query (another
\* action; the blocked cell (1,1), whose condition differs in touch_e) are
\* answered with the queried state
C2_Witness ==
    /\ nexp = 1 /\ last[1].a = "East" /\ last[1].s = old_state /\ TaxiMoved
    /\ LET q == [old_state EXCEPT !.taxi = <<1, 1>>]
       IN  /\ DiffersInRequiredLiteral(q)
           /\ MCE_predict(mce, q, "East") = Ok(Some(q))
           /\ MCE_predict(mce, old_state, "West") = Ok(Some(old_state))

\* C3 (SpecDet): the learner never predicts an incorrect outcome with
\* confidence: in a deterministic environment, a definite prediction for a
\* condition observed earlier equals the outcome observed for it.
C3_NeverWrongOnSeen ==
    \A c \in seen :
        LET p == RL_predict(rl, c) IN p.some => p.val = env[c]

\* C4 (SpecCE): in every reachable CELearner state the condition learners
\* of the rules are pairwise non-overlapping, also right after a call that
\* appended a new rule.
C4_CERulesNonOverlapping == ~HasPairConflict(ce)

\* C5 (SpecRL): in every reachable RewardLearner state the condition
\* learners of the rules are pairwise non-overlapping.
C5_RewardRulesNonOverlapping ==
    \A i \in 1..Len(rl) : \A j \in 1..Len(rl) :
        i # j => ~CL_overlaps(rl[i].learner, rl[j].learner)

\* two rules stand side by side after an experience that added the second
C5_Witness ==
    /\ Len(rl) = 2 /\ rlog # << >> /\ ~rlog[1].found
    /\ ~CL_overlaps(rl[1].learner, rl[2].learner)

\* two different rules of the list both report Match for the condition
DoubleMatch(rules, c) ==
    \E i \in 1..Len(rules) : \E j \in 1..Len(rules) :
        /\ i # j
        /\ CL_predict(rules[i].learner, c) = Match
        /\ CL_predict(rules[j].learner, c) = Match

\* C6 (SpecCE): a rule set holding two or more rules has no condition for
\* which two different rules' ConditionLearners both report Match.
C6_NoDoubleMatch ==
    Len(ce) >= 2 => \A c \in Conds : ~DoubleMatch(ce, c)

\* C7 as stated (SpecRL): immediately after apply_experience(c, r),
\* predict(c) is Some(r), whatever experiences preceded the call.
C7_PredictsLastReward ==
    rlog # << >> => RL_predict(rl, rlog[1].c) = Some(rlog[1].r)

\* C7 as amended (SpecRL): immediately after apply_experience(c, r),
\* predict(c) is Some(r), unless r was already the reward of a rule and the
\* call emptied the rule set (two rules overlapped after the update): then
\* predict(c) is None.
C7_PredictsLastRewardUnlessReset ==
    rlog # << >> =>
        RL_predict(rl, rlog[1].c) =
            IF rlog[1].found /\ rl = << >> THEN None ELSE Some(rlog[1].r)

\* an experience with an already known reward, beside a rule of another
\* reward, is predicted
C7_Witness ==
    /\ rlog # << >> /\ rlog[1].found /\ Len(rl) = 2
    /\ RL_predict(rl, rlog[1].c) = Some(rlog[1].r)

\* C8 (SpecDropOff): after the three DropOff experiences of learns_dropoff
\* (no passenger in the taxi: -10; passenger in the taxi off the
\* destination: -10; passenger in the taxi on the destination: 0) predict is
\* Some(0) for the on-destination state and still Some(-10) for the two
\* earlier ones.
C8_DropOffScript ==
    rlog = <<[c |-> Condition(no_passenger), r |-> -10],
             [c |-> Condition(off_destination), r |-> -10],
             [c |-> Condition(on_destination), r |-> 0]>>
    => /\ MRL_predict(mrl, on_destination, "DropOff") = Some(0)
       /\ MRL_predict(mrl, off_destination, "DropOff") = Some(-10)
       /\ MRL_predict(mrl, no_passenger, "DropOff") = Some(-10)

\* C9 (SpecRLRun): on a fresh RewardLearner, after (c1, r1) predict(c2) is
\* None for every c2 differing from c1 in a literal; after a further
\* (c2, r2) with r2 # r1, predict(c2) is Some(r2) and predict(c1) is still
\* Some(r1).
C9_SecondRewardKeepsFirst ==
    /\ Len(rlog) = 1 =>
          \A c2 \in Conds : c2 # rlog[1].c => RL_predict(rl, c2) = None
    /\ (Len(rlog) = 2 /\ rlog[2].c # rlog[1].c /\ rlog[2].r # rlog[1].r) =>
          /\ RL_predict(rl, rlog[2].c) = Some(rlog[2].r)
          /\ RL_predict(rl, rlog[1].c) = Some(rlog[1].r)

C9_Witness ==
    /\ Len(rlog) = 2 /\ rlog[2].c # rlog[1].c /\ rlog[2].r # rlog[1].r
    /\ Len(rl) = 2
    /\ RL_predict(rl, rlog[2].c) = Some(rlog[2].r)
    /\ RL_predict(rl, rlog[1].c) = Some(rlog[1].r)

NoRuleMatches(rules, c) ==
    \A i \in 1..Len(rules) : CL_predict(rules[i].learner, c) # Match

\* C10 (SpecWorld): a fresh MultiRewardLearner predicts None for every state
\* and action, and a RewardLearner predicts None for every condition that
\* none of its rules matches.
C10_UnknownWithoutMatch ==
    /\ nexp = 0 =>
          \A s \in States, a \in Actions : MRL_predict(mrl, s, a) = None
    /\ \A a \in Actions, c \in WorldConds :
          NoRuleMatches(mrl[a], c) => RL_predict(mrl[a], c) = None

\* a rule was learned for the action of the last step, and a state whose
\* condition it does not match is predicted None
C10_Witness ==
    /\ nexp = 1 /\ Len(mrl[last[1].a]) = 1
    /\ \E s \in States :
          /\ NoRuleMatches(mrl[last[1].a], Condition(s))
          /\ MRL_predict(mrl, s, last[1].a) = None

\* C20 (SpecCL): a ConditionLearner that has received no experience
\* predicts Unknown for every condition, and so does one that has received
\* negative examples only.
C20_UnknownWithoutPositive ==
    clog.pos = {} => \A c \in Conds : CL_predict(cl, c) = Unknown

\* negative examples were given, no positive one, and predict is Unknown
C20_Witness ==
    /\ clog.pos = {} /\ clog.neg
    /\ \A c \in Conds : CL_predict(cl, c) = Unknown

(***************************************************************************)
(* CELearner.predict, stated rule by rule                                  *)
(***************************************************************************)
Kinds == {"x", "y", "p"}

\* the rule list of an MCELearner for an action and an attribute
KindRules(m, a, kind) ==
    CASE kind = "x" -> m.taxi_x_learners[a]
      [] kind = "y" -> m.taxi_y_learners[a]
      [] kind = "p" -> m.passenger_learners[a]

\* the rules whose learner reports Match for the condition
Matching(rules, c) ==
    {i \in 1..Len(rules) : CL_predict(rules[i].learner, c) = Match}

SomeUnknown(rules, c) ==
    \E i \in 1..Len(rules) : CL_predict(rules[i].learner, c) = Unknown

\* rule j matches, its effect applies, and an earlier matching rule's effect
\* applies to a different state
Conflicts(rules, kind, q, j) ==
    LET c == Condition(q)
        rj == Eff_apply(kind, rules[j].effect, q)
    IN  /\ j \in Matching(rules, c) /\ rj.ok
        /\ \E i \in Matching(rules, c) :
              LET ri == Eff_apply(kind, rules[i].effect, q)
              IN  i < j /\ ri.ok /\ ri.val # rj.val

Fails(rules, kind, q, j) ==
    /\ j \in Matching(rules, Condition(q))
    /\ ~Eff_apply(kind, rules[j].effect, q).ok

\* no matching rule listed before rule j fails
NoFailBefore(rules, kind, q, j) ==
    \A i \in 1..(j - 1) : ~Fails(rules, kind, q, i)

NoConflictBefore(rules, kind, q, j) ==
    \A i \in 1..(j - 1) : ~Conflicts(rules, kind, q, i)

\* C12 (SpecMCE): CELearner.predict returns Ok(Some(s)), s the input state,
\* when no rule's learner is Unknown and no rule matches the condition; this
\* answer is not Ok(None).
C12_NoMatchNoEffect ==
    \A a \in CallActions, kind \in Kinds, q \in QueryStates :
        LET rules == KindRules(mce, a, kind)
            c == Condition(q)
        IN  (~SomeUnknown(rules, c) /\ Matching(rules, c) = {}) =>
                /\ CE_predict(rules, kind, q, c) = Ok(Some(q))
                /\ CE_predict(rules, kind, q, c) # Ok(None)

\* a rule set that holds rules, none of which matches the queried state
C12_Witness ==
    \E a \in CallActions, kind \in Kinds, q \in QueryStates :
        LET rules == KindRules(mce, a, kind)
            c == Condition(q)
        IN  /\ Len(rules) >= 2
            /\ ~SomeUnknown(rules, c) /\ Matching(rules, c) = {}
            /\ CE_predict(rules, kind, q, c) = Ok(Some(q))

KindPredict(m, a, kind, q) ==
    CE_predict(KindRules(m, a, kind), kind, q, Condition(q))

Definite(r) == r.ok /\ r.val.some

\* C14 (SpecMCE): MCELearner.predict returns Ok(Some(_)) only if all three
\* rule sets of the action (taxi x, taxi y, passenger) return a definite
\* result; if one of them returns Unknown and none fails, it returns
\* Ok(None).
C14_DefiniteOnlyIfAllDefinite ==
    \A a \in CallActions, q \in QueryStates :
        LET r == MCE_predict(mce, q, a)
        IN  /\ Definite(r) =>
                  \A kind \in Kinds : Definite(KindPredict(mce, a, kind, q))
            /\ ( /\ \A kind \in Kinds : KindPredict(mce, a, kind, q).ok
                 /\ \E kind \in Kinds : KindPredict(mce, a, kind, q) = Ok(None) )
               => r = Ok(None)

\* the passenger rule set alone is Unknown for a state (two of its rules
\* disagree), the two taxi rule sets predict a move, and predict is Ok(None)
C14_Witness ==
    \E a \in CallActions, q \in QueryStates :
        /\ KindPredict(mce, a, "p", q) = Ok(None)
        /\ Definite(KindPredict(mce, a, "x", q))
        /\ KindPredict(mce, a, "x", q) # Ok(Some(q))
        /\ Definite(KindPredict(mce, a, "y", q))
        /\ MCE_predict(mce, q, a) = Ok(None)

\* C15 (SpecMCE): when MCELearner.predict returns Ok(Some(p)), p has the x
\* coordinate predicted by the taxi-x rule set, the y coordinate predicted
\* by the taxi-y rule set, the passenger predicted by the passenger rule set
\* and the destination of the input state.
C15_ComposedFromThree ==
    \A a \in CallActions, q \in QueryStates :
        LET r == MCE_predict(mce, q, a)
        IN  Definite(r) =>
                /\ r.val.val.taxi[1] = KindPredict(mce, a, "x", q).val.val.taxi[1]
                /\ r.val.val.taxi[2] = KindPredict(mce, a, "y", q).val.val.taxi[2]
                /\ r.val.val.passenger =
                       KindPredict(mce, a, "p", q).val.val.passenger
                /\ r.val.val.destination = q.destination

\* a prediction in which all three attributes differ from the input state,
\* each taken from its own rule set
C15_Witness ==
    \E a \in CallActions, q \in QueryStates :
        LET r == MCE_predict(mce, q, a)
        IN  /\ Definite(r)
            /\ r.val.val.taxi[1] # q.taxi[1]
            /\ r.val.val.taxi[2] # q.taxi[2]
            /\ r.val.val.taxi[1] - q.taxi[1] # r.val.val.taxi[2] - q.taxi[2]
            /\ r.val.val.passenger # q.passenger
            /\ KindPredict(mce, a, "x", q).val.val.taxi[2] = q.taxi[2]
            /\ KindPredict(mce, a, "y", q).val.val.passenger = q.passenger
            /\ r.val.val.destination = q.destination

\* some rule of one of the three rule sets matches the state's condition and
\* has an effect whose application to the state fails
SomeRuleFails(m, a, q) ==
    \E kind \in Kinds :
        \E j \in 1..Len(KindRules(m, a, kind)) :
            Fails(KindRules(m, a, kind), kind, q, j)

\* the rule sets queried before the one of an attribute: x, then y, then
\* passenger
KindsBefore(kind) ==
    CASE kind = "x" -> {}
      [] kind = "y" -> {"x"}
      [] kind = "p" -> {"x", "y"}

\* the loop over the rule list reaches a matching rule whose effect fails:
\* no rule listed before it is Unknown or conflicts with an earlier match
ReachesFailure(rules, kind, q) ==
    \E j \in 1..Len(rules) :
        /\ Fails(rules, kind, q, j)
        /\ NoConflictBefore(rules, kind, q, j)
        /\ \A i \in 1..(j - 1) :
              CL_predict(rules[i].learner, Condition(q)) # Unknown

C16_RewardExactlyWhenDetermined ==
    \A c \in Conds :
        LET M == {i \in 1..Len(rl) : CL_predict(rl[i].learner, c) = Match}
            unknown == \E i \in 1..Len(rl) : CL_predict(rl[i].learner, c) = Unknown
        IN  /\ \A r \in Rewards :
                  RL_predict(rl, c) = Some(r) <=>
                      /\ ~unknown /\ M # {}
                      /\ \A i \in M : RewardEq(rl[i].reward, r)
            /\ (unknown \/ M = {}
                  \/ \E i \in M, j \in M : ~RewardEq(rl[i].reward, rl[j].reward))
               => RL_predict(rl, c) = None

\* two rules: one condition is predicted the first rule's reward, another
\* the second rule's, and a third, which no rule matches, None
C16_Witness ==
    /\ Len(rl) = 2
    /\ \E c \in Conds : RL_predict(rl, c) = Some(rl[1].reward)
    /\ \E c \in Conds : RL_predict(rl, c) = Some(rl[2].reward)
    /\ \E c \in Conds : NoRuleMatches(rl, c) /\ RL_predict(rl, c) = None

\* C21 (SpecCL): after exactly one apply_experience(c, true) on a fresh
\* ConditionLearner, predict(c) is Match and predict(c') is NoMatch for every
\* condition c' that differs from c in a literal the seeded hypothesis
\* requires; the hypothesis is seeded to exactly the literals of c.
C21_SeededOnFirstPositive ==
    clog.npos = 1 =>
        \A c \in clog.pos :
            /\ CL_predict(cl, c) = Match
            /\ \A l \in Lits : <<l, c[l]>> \in cl.req
            /\ \A c2 \in Conds :
                  (\E p \in cl.req : c2[p[1]] # c[p[1]]) =>
                      CL_predict(cl, c2) = NoMatch

\* one positive example (after a negative one), predicted Match, and a
\* condition differing from it in one literal only predicted NoMatch
C21_Witness ==
    /\ clog.npos = 1 /\ clog.neg
    /\ \E c \in clog.pos :
          /\ CL_predict(cl, c) = Match
          /\ \E c2 \in Conds :
                /\ Cardinality({l \in Lits : c2[l] # c[l]}) = 1
                /\ CL_predict(cl, c2) = NoMatch

\* C22 (SpecCL): after any non-empty sequence of positive examples,
\* interleaved with any negative examples, predict returns Match for every
\* condition that was given as a positive example.
C22_MatchesEveryPositive ==
    \A c \in clog.pos : CL_predict(cl, c) = Match

\* two positive examples that disagree on every literal, both predicted
\* Match
C22_Witness ==
    /\ clog.neg
    /\ \E c \in clog.pos, c2 \in clog.pos :
          /\ \A l \in Lits : c[l] # c2[l]
          /\ CL_predict(cl, c) = Match /\ CL_predict(cl, c2) = Match

\* C23 (SpecCL): once seeded, the set of required literals only shrinks
\* under apply_experience: after every call it is a subset of the one before
\* (so a literal once dropped is never required again), and repeating a
\* positive example given before removes nothing.
C23_RequiredOnlyShrinks ==
    /\ [][cl.seeded => (cl'.seeded /\ cl'.req \subseteq cl.req)]_vars
    /\ [](\A c \in clog.pos : CL_apply_experience(cl, c, TRUE) = cl)

\* a hypothesis that has lost a literal to a second positive example and
\* still requires one
C23_Witness ==
    /\ cl.seeded /\ Cardinality(clog.pos) = 2
    /\ cl.req # {} /\ Cardinality(cl.req) < NLit

\* C24 (SpecCL): apply_experience(c, false) leaves the hypothesis unchanged,
\* so it changes no predict result.
C24_NegativeChangesNothing ==
    [][clog'.matched = "neg" =>
          /\ cl' = cl
          /\ \A c \in Conds : CL_predict(cl', c) = CL_predict(cl, c)]_vars

\* a negative example was just given to a hypothesis that requires literals
C24_Witness ==
    /\ clog.matched = "neg" /\ cl.seeded /\ cl.req # {}
    /\ \E c \in Conds : CL_predict(cl, c) = NoMatch

\* some condition is predicted Match by both learners
BothMatch(a, b) ==
    \E c \in Conds : CL_predict(a, c) = Match /\ CL_predict(b, c) = Match

C26_RemoveOverlapExact ==
    [][clog'.op = "remove_overlap" =>
          /\ cl'.req \cap cl2.req = {}
          /\ cl.req \ cl2.req \subseteq cl'.req
          /\ cl'.req \subseteq cl.req
          /\ cl'.seeded = cl.seeded
          /\ cl2' = cl2]_vars

\* remove_overlap has just removed a literal from a hypothesis and left
\* another one required
C26_Witness ==
    /\ clog.op = "remove_overlap" /\ clog.removed
    /\ cl.req # {} /\ cl2.req # {}

\* C27 (SpecMirror): given corresponding experiences, each carrying an
\* effect, the RewardLearner and the CELearner hold rule lists of the same
\* length with the same condition hypotheses in the same order after every
\* call.
C27_RewardMirrorsEffect ==
    /\ Len(rl) = Len(ce)
    /\ \A i \in 1..Len(rl) :
          i <= Len(ce) => rl[i].learner = ce[i].learner

\* C28 as stated (SpecRL): whenever RewardLearner.apply_experience detects
\* an overlap, in the new-rule path as well as in the existing-rule path,
\* the rule set is empty when the call returns.
C28_ConflictEmpties ==
    (rlog # << >> /\ rlog[1].conflict) => rl = << >>

\* C28 amended (SpecRL): when apply_experience detects an overlap, every
\* rule stored before the call is forgotten: in the existing-rule path the
\* rule set is empty when the call returns, in the new-rule path it holds
\* the new rule alone, with the reward of the call and matching its
\* condition.
C28_ConflictForgetsOldRules ==
    (rlog # << >> /\ rlog[1].conflict) =>
        IF rlog[1].found
        THEN rl = << >>
        ELSE /\ Len(rl) = 1
             /\ rl[1].reward = rlog[1].r
             /\ CL_predict(rl[1].learner, rlog[1].c) = Match

\* a call of the new-rule path detected an overlap and left the new rule
C28_Witness ==
    /\ rlog # << >> /\ rlog[1].conflict /\ ~rlog[1].found
    /\ Len(rl) = 1 /\ rl[1].reward = rlog[1].r

Movements == {"North", "South", "East", "West"}

\* the cell one step from pos in the direction of a movement action
Target(pos, a) ==
    <<pos[1] + (IF a = "East" THEN 1 ELSE IF a = "West" THEN -1 ELSE 0),
      pos[2] + (IF a = "South" THEN 1 ELSE IF a = "North" THEN -1 ELSE 0)>>

\* a wall of the world stands between two neighbouring cells
WallBetween(w, p, q) ==
    \/ \E e \in w.walls_east :
          {p, q} = {e, <<e[1] + 1, e[2]>>}
    \/ \E e \in w.walls_south :
          {p, q} = {e, <<e[1], e[2] + 1>>}

\* the way of the movement is blocked by the world boundary or by a wall
WayBlocked(w, pos, a) ==
    Target(pos, a) \notin Positions \/ WallBetween(w, pos, Target(pos, a))

\* C29 (SpecState): a movement action whose way is blocked by a wall or by
\* the world boundary leaves the whole state unchanged; an unblocked
\* movement moves the taxi by exactly one cell in the direction of the
\* action and changes nothing else.
C29_MovementRespectsWalls ==
    \A i \in 1..Len(last) :
        last[i].a \in Movements =>
            IF WayBlocked(world, last[i].s.taxi, last[i].a)
            THEN last[i].s2 = last[i].s
            ELSE /\ last[i].s2.taxi = Target(last[i].s.taxi, last[i].a)
                 /\ last[i].s2.passenger = last[i].s.passenger
                 /\ last[i].s2.destination = last[i].s.destination

\* move_wall_north: North from (1, 3) under the wall of the wall-test world
\* leaves the state as it was
C29_Witness ==
    /\ world = WallTestWorld /\ last # << >>
    /\ last[1].a = "North" /\ last[1].s.taxi = <<1, 3>>
    /\ last[1].s.passenger = Some("R") /\ last[1].s.destination = "G"
    /\ last[1].s2 = last[1].s

\* C30 (SpecState): every movement action yields -1; PickUp yields 0 only
\* when the passenger is outside the taxi and the taxi stands on the
\* passenger's location, otherwise -10; DropOff yields 0 when the passenger
\* is in the taxi on the destination, otherwise -10; at_destination becomes
\* true only by such a successful DropOff.
C30_DefaultCostRewards ==
    \A i \in 1..Len(last) :
        LET e == last[i]
            waiting == e.s.passenger.some
        IN  /\ e.a \in Movements => e.r = -1
            /\ e.a = "PickUp" =>
                  e.r = IF waiting /\ e.s.taxi = world.fixed[e.s.passenger.val]
                        THEN 0 ELSE -10
            /\ e.a = "DropOff" =>
                  e.r = IF ~waiting /\ e.s.taxi = world.fixed[e.s.destination]
                        THEN 0 ELSE -10
            /\ (~State_at_destination(e.s) /\ State_at_destination(e.s2)) =>
                  /\ e.a = "DropOff" /\ e.r = 0
                  /\ ~waiting /\ e.s.taxi = world.fixed[e.s.destination]

\* a DropOff with the passenger in the taxi on the destination: reward 0 and
\* at_destination turns true
C30_Witness ==
    /\ last # << >> /\ last[1].a = "DropOff" /\ last[1].r = 0
    /\ ~State_at_destination(last[1].s) /\ State_at_destination(last[1].s2)

\* the latest CELearner experience showed no effect on the taxi's x
NoEffectCall(log) ==
    log # << >> /\ log[1].new.taxi[1] = log[1].old.taxi[1]

\* the states predictions are compared in: the taxi in the middle of the
\* row, where both learned moves apply, and at its east end, where the move
\* east leaves the world
ProbeStates == {s \in LineStates : s.taxi[1] \in {Width \div 2, Width - 1}}

\* C31 (SpecCECalls): apply_experience with a transition that shows no
\* effect never adds, removes or reorders rules and changes no rule's
\* effect, and every prediction of the rule set is the same after the call
\* as before.
C31_NoEffectChangesNothing ==
    NoEffectCall(celog) =>
        /\ Len(ce) = Len(celog[1].rules)
        /\ \A i \in 1..Len(ce) : ce[i].effect = celog[1].rules[i].effect
        /\ \A c \in Conds, s \in ProbeStates :
              CE_predict(ce, "x", s, c) = CE_predict(celog[1].rules, "x", s, c)

\* a blocked-move experience has just been given to a rule set that has
\* learned a move: the rule stands and the move is still predicted
C31_Witness ==
    /\ NoEffectCall(celog) /\ Len(celog[1].rules) = 1 /\ Len(ce) = 1
    /\ \E c \in Conds, s \in LineStates :
          /\ CL_predict(ce[1].learner, celog[1].c) = NoMatch
          /\ CE_predict(ce, "x", s, c).ok
          /\ CE_predict(ce, "x", s, c).val = Some([s EXCEPT !.taxi[1] = @ + 1])

\* the effect observed by the latest CELearner experience
LogObserved(log) == Eff_generate_effects("x", log[1].old, log[1].new)

\* the latest experience took the new-rule path
NewRuleCall(log) ==
    /\ log # << >> /\ LogObserved(log).some
    /\ \A i \in 1..Len(log[1].rules) :
          log[1].rules[i].effect # LogObserved(log).val

\* C32 (SpecCECalls): when apply_experience observes an effect equal to no
\* existing rule's effect, exactly one rule is appended at the end, with
\* the observed effect and a learner seeded on the condition and narrowed
\* by remove_overlap against every existing rule; the existing rules stay
\* in place with the same effects, whether or not the new rule overlaps one
\* of them (no overlap check, no reset).
C32_NewRuleAppended ==
    NewRuleCall(celog) =>
        LET before == celog[1].rules
            n == Len(before)
        IN  /\ Len(ce) = n + 1
            /\ \A i \in 1..n : ce[i].effect = before[i].effect
            /\ \A i \in 1..n : ce[i].learner = before[i].learner
            /\ ce[n + 1].effect = LogObserved(celog).val
            /\ ce[n + 1].learner.seeded
            /\ ce[n + 1].learner.req =
                  CondPairs(celog[1].c) \
                      UNION {before[i].learner.req : i \in 1..n}

\* a second rule was appended although its narrowed learner overlaps the
\* first, which stands
C32_Witness ==
    /\ NewRuleCall(celog) /\ Len(celog[1].rules) = 1 /\ Len(ce) = 2
    /\ ce[2].learner.req # {} /\ ce[2].learner.req # CondPairs(celog[1].c)
    /\ CL_overlaps(ce[1].learner, ce[2].learner)

\* the latest experience took the existing-rule path
FoundCall(log) ==
    /\ log # << >> /\ LogObserved(log).some
    /\ \E i \in 1..Len(log[1].rules) :
          log[1].rules[i].effect = LogObserved(log).val

\* the rules the latest experience was applied to, each learner updated
\* with the experience
LogUpdated(log) == CE_update(log[1].rules, log[1].c, LogObserved(log))

\* C33 (SpecCEReset): the rule set is emptied by apply_experience exactly
\* when the observed effect equals an existing rule's effect and, after the
\* learners were updated, some pair of rules overlaps, whichever rules the
\* pair is made of; in every other call no rule is removed.
C33_ResetExactlyOnFoundOverlap ==
    celog # << >> =>
        IF FoundCall(celog) /\
           \E i \in 1..Len(celog[1].rules), j \in 1..Len(celog[1].rules) :
               /\ i < j
               /\ CL_overlaps(LogUpdated(celog)[i].learner,
                              LogUpdated(celog)[j].learner)
        THEN ce = << >>
        ELSE /\ Len(ce) >= Len(celog[1].rules)
             /\ \A i \in 1..Len(celog[1].rules) :
                   ce[i].effect = celog[1].rules[i].effect

\* the set was emptied by an experience that updated the third rule while
\* the only overlapping pair was that of the first two rules
C33_Witness ==
    /\ FoundCall(celog) /\ Len(celog[1].rules) = 3 /\ ce = << >>
    /\ celog[1].rules[3].effect = LogObserved(celog).val
    /\ CL_overlaps(LogUpdated(celog)[1].learner, LogUpdated(celog)[2].learner)
    /\ ~CL_overlaps(LogUpdated(celog)[1].learner, LogUpdated(celog)[3].learner)
    /\ ~CL_overlaps(LogUpdated(celog)[2].learner, LogUpdated(celog)[3].learner)

\* C34 (SpecMirror): in every reachable CELearner and RewardLearner state no
\* two rules of the rule set carry equal effect (reward) values, and one
\* apply_experience call increases the number of rules by at most one.
C34_OneRulePerValue ==
    /\ [](/\ \A i \in 1..Len(ce), j \in 1..Len(ce) :
                i # j => ce[i].effect # ce[j].effect
          /\ \A i \in 1..Len(rl), j \in 1..Len(rl) :
                i # j => ~RewardEq(rl[i].reward, rl[j].reward))
    /\ [][Len(ce') <= Len(ce) + 1 /\ Len(rl') <= Len(rl) + 1]_vars

\* both rule sets hold two rules after three calls: one call met a value
\* already stored and added nothing
C34_Witness ==
    /\ nexp = 3 /\ Len(ce) = 2 /\ Len(rl) = 2
    /\ ce[1].effect # ce[2].effect /\ rl[1].reward # rl[2].reward

(***************************************************************************)
(* Specification SpecEpisode: an episode of at most MaxExp actions in the  *)
(* fixture world from one of the start states of the tests; every step     *)
(* teaches both composite learners; last keeps the latest step.            *)
(***************************************************************************)
StartStates == {no_passenger, off_destination, on_destination, old_state}

InitEpisode ==
    /\ rl = RL_new /\ rlog = << >> /\ ce = CE_new /\ celog = << >>
    /\ env = << >> /\ seen = {}
    /\ mce = MCE_new /\ mrl = MRL_new
    /\ st \in StartStates /\ last = << >> /\ nexp = 0
    /\ cl = CL_new /\ clog = << >>
    /\ cl2 = CL_new /\ world = FixtureWorld
    /\ stack = << >> /\ learn_result = << >>

EpisodeStep(a) ==
    /\ nexp < MaxExp
    /\ LET res == State_apply_action(st, a)
       IN  /\ mce' = MCE_apply_experience(mce, st, a, res.state)
           /\ mrl' = MRL_apply_experience(mrl, st, a, res.reward)
           /\ last' = <<[s |-> st, a |-> a, s2 |-> res.state, r |-> res.reward]>>
           /\ st' = res.state
    /\ nexp' = nexp + 1
    /\ UNCHANGED <<rl, rlog, ce, celog, env, seen, cl, clog,
                 cl2, world,
                 stack, learn_result>>

NextEpisode == \E a \in Actions : EpisodeStep(a)

SpecEpisode == InitEpisode /\ [][NextEpisode]_vars

\* C35 (SpecEpisode): apply_experience for action a on an MCELearner or a
\* MultiRewardLearner changes only the rule sets stored at a's index: the
\* rule sets of every other action, and every prediction for every other
\* action, are unchanged by the call.
C35_OtherActionsUntouched ==
    [][\A b \in Actions \ {last'[1].a} :
          /\ mce'.taxi_x_learners[b] = mce.taxi_x_learners[b]
          /\ mce'.taxi_y_learners[b] = mce.taxi_y_learners[b]
          /\ mce'.passenger_learners[b] = mce.passenger_learners[b]
          /\ mrl'[b] = mrl[b]
          /\ \A s \in StartStates :
                /\ MCE_predict(mce', s, b) = MCE_predict(mce, s, b)
                /\ MRL_predict(mrl', s, b) = MRL_predict(mrl, s, b)]_vars

\* after East and then PickUp, the rule sets of East still hold what the
\* first step taught and those of PickUp hold rules of their own
C35_Witness ==
    /\ nexp = 2 /\ last[1].a = "PickUp"
    /\ mce.taxi_x_learners["East"] # << >> /\ mrl["East"] # << >>
    /\ mrl["PickUp"] # << >>
    /\ \A b \in Actions \ {"East", "PickUp"} : mrl[b] = << >>

\* the three rule sets of the action hold no rule
NoRulesFor(m, a) ==
    /\ m.taxi_x_learners[a] = << >>
    /\ m.taxi_y_learners[a] = << >>
    /\ m.passenger_learners[a] = << >>

\* C36 (SpecEpisode): a CELearner holding no rules answers every query with
\* Ok(Some(input state)); hence an MCELearner with no experience for an
\* action, a freshly created one for every action, predicts for every state
\* the input state unchanged, not Unknown.
C36_EmptyPredictsUnchanged ==
    \A a \in Actions, s \in States :
        /\ \A kind \in Kinds :
              KindRules(mce, a, kind) = << >> =>
                  CE_predict(KindRules(mce, a, kind), kind, s, Condition(s))
                      = Ok(Some(s))
        /\ NoRulesFor(mce, a) => MCE_predict(mce, s, a) = Ok(Some(s))

\* after one experience of East the learner has none for North: it
\* predicts that North leaves the state as it is, where the taxi would move
C36_Witness ==
    /\ nexp = 1 /\ last[1].a = "East" /\ last[1].s = old_state
    /\ ~NoRulesFor(mce, "East") /\ NoRulesFor(mce, "North")
    /\ MCE_predict(mce, old_state, "North") = Ok(Some(old_state))
    /\ State_apply_action(old_state, "North").state # old_state

\* C37 (SpecMirror): every ConditionLearner stored in a reachable CELearner
\* or RewardLearner rule set has received a positive example: no stored
\* learner is in its initial state, none answers Unknown.
C37_StoredLearnersSeeded ==
    /\ \A i \in 1..Len(ce) :
          /\ ce[i].learner.seeded
          /\ \A c \in Conds : CL_predict(ce[i].learner, c) # Unknown
    /\ \A i \in 1..Len(rl) :
          /\ rl[i].learner.seeded
          /\ \A c \in Conds : CL_predict(rl[i].learner, c) # Unknown

\* both sets store a learner that remove_overlap has left without a
\* required literal, as the initial one is, and that answers Match
C37_Witness ==
    /\ \E i \in 1..Len(ce) :
          /\ ce[i].learner.req = {} /\ ce[i].learner # CL_new
          /\ \A c \in Conds : CL_predict(ce[i].learner, c) = Match
    /\ \E i \in 1..Len(rl) :
          /\ rl[i].learner.req = {} /\ rl[i].learner # CL_new
          /\ \A c \in Conds : CL_predict(rl[i].learner, c) = Match

(***************************************************************************)
(* MaxQ: the task hierarchy built by MaxQ::new for the fixture world.  The *)
(* value and completion tables are not kept: where the code picks the      *)
(* child of highest value, any child that evaluate_max_node can return is  *)
(* a possible pick.                                                        *)
(***************************************************************************)
\* world.get_fixed_id_from_index
FixedIds == <<"R", "G", "Y", "B">>

num_navigates == Len(FixedIds)

\* Actions::from_index
ActionOf == <<"North", "South", "East", "West", "PickUp", "DropOff">>

to_index(a) == (CHOOSE k \in 1..Len(ActionOf) : ActionOf[k] = a) - 1

start_get == 1

start_put == start_get + 1

start_navigates == start_put + 1

start_actions == start_navigates + num_navigates

num_nodes == start_actions + Len(ActionOf)

movement_action_indices ==
    <<start_actions + to_index("North"), start_actions + to_index("South"),
      start_actions + to_index("East"), start_actions + to_index("West")>>

navigate_indices == [i \in 1..num_navigates |-> start_navigates + i - 1]

max_nodes ==
    [n \in 0..(num_nodes - 1) |->
        IF n = 0
        THEN [compound |-> TRUE, compound_type |-> <<"Root">>,
              children |-> <<start_get, start_put>>]
        ELSE IF n = start_get
        THEN [compound |-> TRUE, compound_type |-> <<"Get">>,
              children |-> navigate_indices \o
                           <<start_actions + to_index("PickUp")>>]
        ELSE IF n = start_put
        THEN [compound |-> TRUE, compound_type |-> <<"Put">>,
              children |-> <<start_actions + to_index("DropOff")>> \o
                           navigate_indices]
        ELSE IF n < start_actions
        THEN [compound |-> TRUE,
              compound_type |-> <<"Navigate", FixedIds[n - start_navigates + 1]>>,
              children |-> movement_action_indices]
        ELSE [compound |-> FALSE, action |-> ActionOf[n - start_actions + 1]]]

Children(n) == {max_nodes[n].children[k] : k \in 1..Len(max_nodes[n].children)}

terminal_state(node_type, s) ==
    CASE node_type[1] = "Root" -> State_at_destination(s)
      [] node_type[1] = "Get" -> s.passenger = None
      [] node_type[1] = "Put" -> State_at_destination(s)
      [] node_type[1] = "Navigate" -> s.taxi = FixedPos[node_type[2]]

\* the node is a compound node whose task is over in the state
Terminal(n, s) ==
    max_nodes[n].compound /\ terminal_state(max_nodes[n].compound_type, s)

\* StateIndexer: every state of the world has an index, the states are
\* numbered by taxi position, passenger and destination
TagIndex(tag) == CHOOSE k \in 1..Len(FixedIds) : FixedIds[k] = tag

get_index(s) ==
    IF s \notin States THEN None
    ELSE Some(((s.taxi[1] * Height + s.taxi[2]) * (num_navigates + 1)
                 + (IF s.passenger.some THEN TagIndex(s.passenger.val) ELSE 0))
              * num_navigates + (TagIndex(s.destination) - 1))

get_state(i) ==
    LET d == i % num_navigates
        r == i \div num_navigates
        pc == r % (num_navigates + 1)
        cell == r \div (num_navigates + 1)
    IN  IF i < 0 \/ cell >= Width * Height THEN None
        ELSE Some([taxi |-> <<cell \div Height, cell % Height>>,
                   passenger |-> IF pc = 0 THEN None ELSE Some(FixedIds[pc]),
                   destination |-> FixedIds[d + 1]])

\* evaluate_max_node returns Some for the node in the state
RECURSIVE evaluate_max_node_some(_, _)
evaluate_max_node_some(n, s) ==
    IF ~max_nodes[n].compound THEN TRUE
    ELSE /\ ~terminal_state(max_nodes[n].compound_type, s)
         /\ \E c \in Children(n) : evaluate_max_node_some(c, s)

\* variant: the exploring branch chooses among all children
non_terminal_children_All(n, s) == Children(n)

\* lines 311-335: the children the exploring branch chooses among
non_terminal_children(n, s) == {c \in Children(n) : ~Terminal(c, s)}

\* lines 337-343: the children the greedy branch can return
greedy_children(n, s) ==
    IF evaluate_max_node_some(n, s)
    THEN {c \in Children(n) : evaluate_max_node_some(c, s)}
    ELSE {}

\* variant: the child is given the whole budget of its parent
child_budget_Whole(frame) == frame.max_steps

\* line 373: the budget given to the child
child_budget(frame) == frame.max_steps - Len(frame.seq)

\* lines 457-465: the value learn returns for the sequence of the root call
learn_return(sq, s) ==
    IF sq = << >> THEN None
    ELSE LET final_state == get_state(sq[Len(sq)])
         IN  IF final_state.some /\ State_at_destination(final_state.val)
             THEN Some(Len(sq)) ELSE None

(***************************************************************************)
(* Specification SpecMaxQ: one call of MaxQ::learn on a fresh MaxQ, from   *)
(* one of the start states and with a budget of at most MaxBudget steps.   *)
(* stack holds the active calls of maxq_q (node, budget, sequence so far), *)
(* last the latest call that returned, nexp counts the primitive actions   *)
(* executed, learn_result holds the value learn returned.                  *)
(***************************************************************************)
delivered == [taxi |-> <<3, 3>>, passenger |-> Some("B"), destination |-> "B"]

MaxQStarts == StartStates \cup {delivered}

InitMaxQ ==
    /\ rl = RL_new /\ rlog = << >> /\ ce = CE_new /\ celog = << >>
    /\ env = << >> /\ seen = {}
    /\ mce = MCE_new /\ mrl = MRL_new
    /\ st \in MaxQStarts /\ last = << >> /\ nexp = 0
    /\ cl = CL_new /\ clog = << >>
    /\ cl2 = CL_new /\ world = FixtureWorld
    /\ \E m \in 0..MaxBudget :
          stack = <<[node_index |-> 0, max_steps |-> m, seq |-> << >>]>>
    /\ learn_result = << >>

Top == stack[Len(stack)]

\* line 295: the loop of the compound node at the top goes on
LoopRuns ==
    /\ stack # << >> /\ max_nodes[Top.node_index].compound
    /\ ~Terminal(Top.node_index, st)
    /\ Len(Top.seq) < Top.max_steps

Call(child) ==
    /\ stack' = Append(stack, [node_index |-> child,
                               max_steps |-> child_budget(Top),
                               seq |-> << >>])
    /\ UNCHANGED <<rl, rlog, ce, celog, env, seen, mce, mrl, st, last, nexp,
                   cl, clog, cl2, world, learn_result>>

\* lines 308-335: the roll is below epsilon
SelectRandom(child) ==
    /\ LoopRuns
    /\ get_index(st).some
    /\ child \in non_terminal_children(Top.node_index, st)
    /\ Call(child)

\* lines 336-344: the roll is not below epsilon
SelectGreedy(child) ==
    /\ LoopRuns
    /\ get_index(st).some
    /\ child \in greedy_children(Top.node_index, st)
    /\ Call(child)

\* the caller's frame after the call at the top returned sq (line 410)
Returned(sq) ==
    [i \in 1..(Len(stack) - 1) |->
        IF i = Len(stack) - 1
        THEN [stack[i] EXCEPT !.seq = @ \o sq]
        ELSE stack[i]]

\* lines 419-431: the primitive node at the top acts and returns
Primitive ==
    /\ stack # << >> /\ ~max_nodes[Top.node_index].compound
    /\ get_index(st).some
    /\ LET sq == <<get_index(st).val>>
       IN  /\ st' = State_apply_action(st, max_nodes[Top.node_index].action).state
           /\ stack' = Returned(sq)
           /\ last' = <<[Top EXCEPT !.seq = sq]>>
    /\ nexp' = nexp + 1
    /\ UNCHANGED <<rl, rlog, ce, celog, env, seen, mce, mrl,
                   cl, clog, cl2, world, learn_result>>

\* line 295 and 441: the loop of a compound node below the root ends
Return ==
    /\ Len(stack) > 1 /\ max_nodes[Top.node_index].compound
    /\ ~LoopRuns
    /\ stack' = Returned(Top.seq)
    /\ last' = <<Top>>
    /\ UNCHANGED <<rl, rlog, ce, celog, env, seen, mce, mrl, st, nexp,
                   cl, clog, cl2, world, learn_result>>

\* lines 455-465: the root call ends and learn returns
LearnReturn ==
    /\ Len(stack) = 1 /\ ~LoopRuns
    /\ learn_result' = <<learn_return(Top.seq, st)>>
    /\ stack' = << >>
    /\ last' = <<Top>>
    /\ UNCHANGED <<rl, rlog, ce, celog, env, seen, mce, mrl, st, nexp,
                   cl, clog, cl2, world>>

NextMaxQ ==
    \/ \E child \in 0..(num_nodes - 1) : SelectRandom(child)
    \/ \E child \in 0..(num_nodes - 1) : SelectGreedy(child)
    \/ Primitive
    \/ Return
    \/ LearnReturn

SpecMaxQ == InitMaxQ /\ [][NextMaxQ]_vars

\* the scheduling of one thread: a call that can go on does
SpecMaxQLive == SpecMaxQ /\ WF_vars(NextMaxQ)

\* C38 (SpecMaxQ): MaxQ::learn returns Some(n), n the number of primitive
\* actions executed, if and only if the state reached after the last
\* executed primitive action is at the destination, and None otherwise.
C38_LearnReportsGoal ==
    (learn_result # << >> /\ nexp > 0) =>
        /\ learn_result[1].some <=> State_at_destination(st)
        /\ learn_result[1].some => learn_result[1].val = nexp

\* C39 (SpecMaxQ): maxq_q never exceeds its step budget: for the root call
\* and for every recursive call, the sequence of visited state indices, one
\* per executed primitive action, is never longer than the budget passed to
\* the call, while the call runs and when it returns.
C39_WithinBudget ==
    /\ \A i \in 1..Len(stack) : Len(stack[i].seq) <= stack[i].max_steps
    /\ \A i \in 1..Len(last) : Len(last[i].seq) <= last[i].max_steps
    /\ nexp <= MaxBudget

\* the root call has returned with its budget of two steps used up, the
\* second of them made by a call that had one step left
C39_Witness ==
    /\ learn_result # << >> /\ last[1].node_index = 0
    /\ last[1].max_steps = 2 /\ Len(last[1].seq) = 2 /\ nexp = 2
    /\ ~State_at_destination(st)

\* C40 (SpecMaxQLive): MaxQ::learn terminates for every start state and
\* every budget: whenever the loop of a compound node runs, a child can be
\* selected, a primitive action or a compound node that is not terminal;
\* every call made by the loop returns at least one step; and learn
\* returns in the end.
C40_LearnTerminates ==
    /\ [](LoopRuns =>
             /\ non_terminal_children(Top.node_index, st) # {}
             /\ greedy_children(Top.node_index, st) # {}
             /\ \A c \in non_terminal_children(Top.node_index, st) \cup
                         greedy_children(Top.node_index, st) :
                   ~Terminal(c, st))
    /\ [](\A i \in 1..Len(last) :
             last[i].node_index # 0 => Len(last[i].seq) >= 1)
    /\ <>(learn_result # << >>)

\* learn has returned after Get and Navigate calls that each added a step
C40_Witness ==
    /\ learn_result # << >> /\ nexp = 2
    /\ last[1].node_index = 0 /\ Len(last[1].seq) = 2

====
